---- MODULE Spec2Model ----
(***************************************************************************)
(* Call lifecycle of the outbound caller (src/agent.py).                   *)
(*                                                                         *)
(* One job = one run of entrypoint(ctx) plus the function tools of the     *)
(* OutboundCaller agent, which the conversational session invokes as       *)
(* asyncio tasks.  Every `await` of the source is a suspension point: the  *)
(* code up to an await is one action, the resumption after it another.     *)
(* Calls into the dialing API, the room service and the speech pipeline    *)
(* are external: each either returns or raises.                            *)
(***************************************************************************)
EXTENDS Naturals, Sequences, FiniteSets

\* ------------------------------------------------------------------ bounds
\* Number of tool invocations of one job (they may overlap in time).
MaxHandlers == 2
\* Number of utterances the agent speaks on its own (LLM turns).
MaxAgentSpeech == 1

\* --------------------------------------------------------------- constants
\* agent.participant before set_participant (None).
NoParticipant == "None"
\* dial_info has no "transfer_to" key.
Absent == "<absent>"
\* Identity of the agent's own participant (room.local_participant.identity).
LocalIdentity == "agent"
\* Job metadata: the phone numbers a job may be dispatched with.
Phones == {"+15550001"}
\* Job metadata: transfer_to is missing, empty or a phone number.
TransferTargets == {Absent, "", "+15550100"}
\* Exceptions of the dialing API: api.TwirpError, or any other Exception.
ErrKinds == {"twirp", "other"}

Handlers == 1..MaxHandlers

VARIABLES
    dial_info,     \* json.loads(ctx.job.metadata)
    epc,           \* where entrypoint is
    sessionTask,   \* the task session_started: none, pending, started, failed
    call,          \* the callee's SIP leg: idle, dialing, answered, failed
    callErr,       \* kind of the exception the callee dial raised, or "none"
    calleeDials,   \* sequence of identities of the callee dial requests issued
    awaited,       \* identity entrypoint passed to wait_for_participant
    participant,   \* agent.participant
    shutdown,      \* ctx.shutdown() was called
    joined,        \* identities of the remote participants visible in the room
    removed,       \* identities removed from the room by remove_participant
    roomDeleted,   \* a delete_room request succeeded
    speechQ,       \* utterances not yet played out; its head is current_speech
    agentSpeech,   \* number of utterances the agent spoke on its own
    handler        \* the tool invocations

vars == <<dial_info, epc, sessionTask, call, callErr, calleeDials, awaited,
          participant, shutdown, joined, removed, roomDeleted, speechQ, agentSpeech, handler>>

entryVars == <<epc, sessionTask, call, callErr, calleeDials, awaited,
               participant, shutdown>>

Range(s) == {s[i] : i \in DOMAIN s}

\* session.current_speech: the utterance being played, 0 for None.
current_speech == IF speechQ = <<>> THEN 0 ELSE Head(speechQ)

\* An utterance handle has finished playing (0, no handle, counts as finished).
PlayedOut(u) == u \notin Range(speechQ)

\* Utterance handles: the agent's own utterances are 1..MaxAgentSpeech, the
\* replies generate_reply makes for invocation h follow them.
NoticeId(h) == MaxAgentSpeech + 2 * h - 1
ApologyId(h) == MaxAgentSpeech + 2 * h

\* A tool invocation that has not happened yet.
IdleHandler ==
    [action |-> "none", pc |-> "idle", bound |-> FALSE, result |-> "none",
     notice |-> 0, apology |-> 0, speech |-> 0, leg |-> "none",
     failStage |-> "none", dials |-> 0, removes |-> 0, deletes |-> 0]

Init ==
    /\ dial_info \in [phone_number : Phones, transfer_to : TransferTargets]
    /\ epc = "start"
    /\ sessionTask = "none"
    /\ call = "idle"
    /\ callErr = "none"
    /\ calleeDials = <<>>
    /\ awaited = NoParticipant
    /\ participant = NoParticipant
    /\ shutdown = FALSE
    /\ joined = {}
    /\ removed = {}
    /\ roomDeleted = FALSE
    /\ speechQ = <<>>
    /\ agentSpeech = 0
    /\ handler = [h \in Handlers |-> IdleHandler]

\* ------------------------------------------------------------- entrypoint

\* await ctx.connect()
Connect ==
    /\ epc = "start"
    /\ epc' = "connected"
    /\ UNCHANGED <<dial_info, sessionTask, call, callErr, calleeDials, awaited,
                   participant, shutdown, joined, removed, roomDeleted,
                   speechQ, agentSpeech, handler>>

\* The agent and the session are built and session.start is spawned as the
\* task session_started; the agent starts with participant = None.
StartSession ==
    /\ epc = "connected"
    /\ epc' = "spawned"
    /\ sessionTask' = "pending"
    /\ participant' = NoParticipant
    /\ UNCHANGED <<dial_info, call, callErr, calleeDials, awaited, shutdown,
                   joined, removed, roomDeleted, speechQ, agentSpeech, handler>>

\* The point of entrypoint at which the callee dial request is issued.
DialPoint_BeforeSession == epc \in {"connected", "spawned"}
DialPoint == epc = "spawned"

\* ctx.api.sip.create_sip_participant(... wait_until_answered=True) is called
\* with participant_identity = phone_number; entrypoint suspends on it.
Dial ==
    /\ DialPoint
    /\ epc' = "dialing"
    /\ call' = "dialing"
    /\ calleeDials' = Append(calleeDials, dial_info.phone_number)
    /\ UNCHANGED <<dial_info, sessionTask, callErr, awaited, participant,
                   shutdown, joined, removed, roomDeleted, speechQ, agentSpeech, handler>>

\* The dial returns: the callee answered.  entrypoint goes on to
\* `await session_started`.
DialAnswered ==
    /\ epc = "dialing"
    /\ call' = "answered"
    /\ epc' = "await_session"
    /\ UNCHANGED <<dial_info, sessionTask, callErr, calleeDials, awaited,
                   participant, shutdown, joined, removed, roomDeleted,
                   speechQ, agentSpeech, handler>>

\* Where entrypoint goes after a TwirpError of the callee dial.
AfterTwirpError == "done"

\* The try block raised an exception of kind k: `except api.TwirpError` logs
\* it and calls ctx.shutdown(); any other exception leaves entrypoint.
Except(k) ==
    IF k = "twirp"
    THEN /\ shutdown' = TRUE
         /\ epc' = AfterTwirpError
    ELSE /\ shutdown' = shutdown
         /\ epc' = "crashed"

\* The task session_started after the dial raised: the except path neither
\* awaits nor cancels it.
TaskAfterDialError_Cancelled ==
    IF sessionTask = "pending" THEN "cancelled" ELSE sessionTask
TaskAfterDialError == sessionTask

\* The dial raises: the call failed (busy, no answer, invalid number: a
\* TwirpError with a SIP status) or the request itself failed.
DialError(k) ==
    /\ epc = "dialing"
    /\ call' = "failed"
    /\ callErr' = k
    /\ Except(k)
    /\ sessionTask' = TaskAfterDialError
    /\ UNCHANGED <<dial_info, calleeDials, awaited, participant,
                   joined, removed, roomDeleted, speechQ, agentSpeech, handler>>

\* The identity entrypoint waits for: participant_identity, the phone number
\* it dialed.
AwaitedIdentity_TransferTarget == dial_info.transfer_to
AwaitedIdentity == dial_info.phone_number

\* `await session_started` returns once the task has finished; entrypoint
\* then calls ctx.wait_for_participant(identity=participant_identity).
AwaitSessionStarted ==
    /\ epc = "await_session"
    /\ sessionTask = "started"
    /\ epc' = "wait_participant"
    /\ awaited' = AwaitedIdentity
    /\ UNCHANGED <<dial_info, sessionTask, call, callErr, calleeDials,
                   participant, shutdown, joined, removed, roomDeleted,
                   speechQ, agentSpeech, handler>>

\* `await session_started` re-raises the exception of a failed session start.
AwaitSessionFailed(k) ==
    /\ epc = "await_session"
    /\ sessionTask = "failed"
    /\ Except(k)
    /\ UNCHANGED <<dial_info, sessionTask, call, callErr, calleeDials, awaited,
                   participant, joined, removed, roomDeleted, speechQ, agentSpeech, handler>>

\* What wait_for_participant needs before it returns the participant.
ParticipantReady_NoWait == TRUE
ParticipantReady == awaited \in joined

\* wait_for_participant returns the callee; agent.set_participant(participant).
BindParticipant ==
    /\ epc = "wait_participant"
    /\ ParticipantReady
    /\ participant' = awaited
    /\ epc' = "done"
    /\ UNCHANGED <<dial_info, sessionTask, call, callErr, calleeDials, awaited,
                   shutdown, joined, removed, roomDeleted, speechQ, agentSpeech, handler>>

\* wait_for_participant raises an exception of kind k; the call is inside the
\* try, so the except clause decides as for the dial.
WaitParticipantError(k) ==
    /\ epc = "wait_participant"
    /\ Except(k)
    /\ UNCHANGED <<dial_info, sessionTask, call, callErr, calleeDials, awaited,
                   participant, joined, removed, roomDeleted, speechQ, agentSpeech, handler>>

\* ------------------------------------------------------------ environment

\* The task session_started finishes: session.start returned.
SessionStartOk ==
    /\ sessionTask = "pending"
    /\ sessionTask' = "started"
    /\ UNCHANGED <<dial_info, epc, call, callErr, calleeDials, awaited,
                   participant, shutdown, joined, removed, roomDeleted,
                   speechQ, agentSpeech, handler>>

\* The task session_started finishes: session.start raised.
SessionStartFail ==
    /\ sessionTask = "pending"
    /\ sessionTask' = "failed"
    /\ UNCHANGED <<dial_info, epc, call, callErr, calleeDials, awaited,
                   participant, shutdown, joined, removed, roomDeleted,
                   speechQ, agentSpeech, handler>>

\* The answered callee becomes visible in the room under the identity the
\* dial request gave it.
CalleeVisible ==
    /\ call = "answered"
    /\ ~roomDeleted
    /\ calleeDials[Len(calleeDials)] \notin joined
    /\ joined' = joined \cup {calleeDials[Len(calleeDials)]}
    /\ UNCHANGED <<dial_info, entryVars, removed, roomDeleted, speechQ, agentSpeech, handler>>

\* The answered transfer target becomes visible in the room.
TargetVisible ==
    /\ \E h \in Handlers : handler[h].leg = "answered"
    /\ ~roomDeleted
    /\ dial_info.transfer_to \notin joined
    /\ joined' = joined \cup {dial_info.transfer_to}
    /\ UNCHANGED <<dial_info, entryVars, removed, roomDeleted, speechQ, agentSpeech, handler>>

\* The agent answers the callee: a new utterance is queued for playout.
AgentSpeaks ==
    /\ sessionTask = "started"
    /\ call = "answered"
    /\ agentSpeech < MaxAgentSpeech
    /\ agentSpeech' = agentSpeech + 1
    /\ speechQ' = Append(speechQ, agentSpeech + 1)
    /\ UNCHANGED <<dial_info, entryVars, joined, removed, roomDeleted, handler>>

\* The current utterance finishes playing.
SpeechFinish ==
    /\ speechQ # <<>>
    /\ speechQ' = Tail(speechQ)
    /\ UNCHANGED <<dial_info, entryVars, joined, removed, roomDeleted, agentSpeech, handler>>

\* ------------------------------------------------------ the function tools

\* A tool is a method of the agent and has no guard of its own: it can be
\* called once the agent object exists (OutboundCaller(...) in entrypoint),
\* whatever the state of the session, the call, the room and the job.
\* Invocations take the slots 1, 2, ... in order.
CanInvoke(h) ==
    /\ handler[h].pc = "idle"
    /\ \A g \in Handlers : g < h => handler[g].pc # "idle"
    /\ sessionTask # "none"

\* The invocation r moves to pc; a request of the room or dialing API is
\* issued on entering the state that awaits it:
\*   "dial"   create_sip_participant for the transfer target,
\*   "remove" remove_participant, "hangup" delete_room (hangup()).
Goto(r, pc) ==
    [r EXCEPT !.pc = pc,
              !.dials = IF pc = "dial" THEN @ + 1 ELSE @,
              !.leg = IF pc = "dial" THEN "dialing" ELSE @,
              !.removes = IF pc = "remove" THEN @ + 1 ELSE @,
              !.deletes = IF pc = "hangup" THEN @ + 1 ELSE @]

\* A tool invocation starts: the agent's participant is read as it is now.
Started(name) ==
    [IdleHandler EXCEPT !.action = name,
                        !.bound = (participant # NoParticipant)]

\* self.participant.identity raises AttributeError while participant is None.
ParticipantIdentityRaises == participant = NoParticipant

\* Where transfer_call goes when generate_reply for the notice raises: the
\* call is made before the try block, so the exception leaves the tool.
AfterNoticeError_Hangup == "hangup"
AfterNoticeError == "raised"

\* transfer_call up to its first await.  dial_info["transfer_to"] raises
\* KeyError when the key is missing; an empty value returns the failure
\* result; otherwise generate_reply speaks the transfer notice, or raises.
transfer_call(h, replyOk) ==
    /\ CanInvoke(h)
    /\ LET r == Started("transfer_call")
           t == dial_info.transfer_to
       IN  IF t = Absent
           THEN /\ replyOk
                /\ handler' = [handler EXCEPT ![h] = Goto(r, "raised")]
                /\ UNCHANGED speechQ
           ELSE IF t = ""
           THEN /\ replyOk
                /\ handler' = [handler EXCEPT ![h] =
                       [Goto(r, "returned") EXCEPT
                            !.result = "cannot transfer call"]]
                /\ UNCHANGED speechQ
           ELSE IF replyOk
           THEN /\ handler' = [handler EXCEPT ![h] =
                       [Goto(r, "notice") EXCEPT !.notice = NoticeId(h)]]
                /\ speechQ' = Append(speechQ, NoticeId(h))
           ELSE /\ handler' = [handler EXCEPT ![h] = Goto(r, AfterNoticeError)]
                /\ UNCHANGED speechQ
    /\ UNCHANGED <<dial_info, entryVars, joined, removed, roomDeleted,
                   agentSpeech>>

\* What `await generate_reply(notice)` waits for.
NoticeAwaited_NoWait(r) == TRUE
NoticeAwaited(r) == PlayedOut(r.notice)

\* The notice has played out: the transfer target is dialed.
NoticeDone(h) ==
    /\ handler[h].pc = "notice"
    /\ NoticeAwaited(handler[h])
    /\ handler' = [handler EXCEPT ![h] = Goto(@, "dial")]
    /\ UNCHANGED <<dial_info, entryVars, joined, removed, roomDeleted,
                   speechQ, agentSpeech>>

\* Where transfer_call goes once the apology has played out.
AfterApology_NoHangup == "returned"
AfterApology == "hangup"

\* `except Exception` of transfer_call: a step of the try block raised at
\* `stage`; generate_reply speaks the apology, or raises itself.
TransferExcept(h, stage, replyOk) ==
    LET r == [handler[h] EXCEPT !.failStage = stage,
                  !.leg = IF stage = "dial" THEN "failed" ELSE @]
    IN  IF replyOk
        THEN /\ handler' = [handler EXCEPT ![h] =
                    [Goto(r, "apology") EXCEPT !.apology = ApologyId(h)]]
             /\ speechQ' = Append(speechQ, ApologyId(h))
        ELSE /\ handler' = [handler EXCEPT ![h] = Goto(r, "raised")]
             /\ UNCHANGED speechQ

\* The transfer dial returns: the target answered; wait_for_participant
\* (identity=transfer_to) is awaited next.
TransferDialAnswered(h) ==
    /\ handler[h].pc = "dial"
    /\ handler' = [handler EXCEPT ![h] =
           [Goto(@, "join") EXCEPT !.leg = "answered"]]
    /\ UNCHANGED <<dial_info, entryVars, joined, removed, roomDeleted,
                   speechQ, agentSpeech>>

\* The transfer dial raises.
TransferDialError(h, replyOk) ==
    /\ handler[h].pc = "dial"
    /\ TransferExcept(h, "dial", replyOk)
    /\ UNCHANGED <<dial_info, entryVars, joined, removed, roomDeleted,
                   agentSpeech>>

\* What wait_for_participant(identity=transfer_to) needs before it returns.
TargetJoined_NoWait == TRUE
TargetJoined == dial_info.transfer_to \in joined

\* The transfer target is in the room: remove_participant is requested for
\* the agent's own identity.
TransferJoined(h) ==
    /\ handler[h].pc = "join"
    /\ TargetJoined
    /\ handler' = [handler EXCEPT ![h] = Goto(@, "remove")]
    /\ UNCHANGED <<dial_info, entryVars, joined, removed, roomDeleted,
                   speechQ, agentSpeech>>

\* wait_for_participant raises.
TransferJoinError(h, replyOk) ==
    /\ handler[h].pc = "join"
    /\ TransferExcept(h, "join", replyOk)
    /\ UNCHANGED <<dial_info, entryVars, joined, removed, roomDeleted,
                   agentSpeech>>

\* The identity transfer_call removes from the room.
RemovedIdentity_Callee == dial_info.phone_number
RemovedIdentity == LocalIdentity

\* remove_participant returns: the agent has left the room; transfer_call
\* returns None.
TransferRemoved(h) ==
    /\ handler[h].pc = "remove"
    /\ removed' = removed \cup {RemovedIdentity}
    /\ handler' = [handler EXCEPT ![h] = Goto(@, "returned")]
    /\ UNCHANGED <<dial_info, entryVars, joined, roomDeleted, speechQ, agentSpeech>>

\* remove_participant raises.
TransferRemoveError(h, replyOk) ==
    /\ handler[h].pc = "remove"
    /\ TransferExcept(h, "remove", replyOk)
    /\ UNCHANGED <<dial_info, entryVars, joined, removed, roomDeleted,
                   agentSpeech>>

\* The apology has played out: hangup() requests the room delete.
ApologyDone(h) ==
    /\ handler[h].pc = "apology"
    /\ PlayedOut(handler[h].apology)
    /\ handler' = [handler EXCEPT ![h] = Goto(@, AfterApology)]
    /\ UNCHANGED <<dial_info, entryVars, joined, removed, roomDeleted,
                   speechQ, agentSpeech>>

\* hangup(): delete_room returns; the tool that called hangup() returns None.
HangupDone(h) ==
    /\ handler[h].pc = "hangup"
    /\ roomDeleted' = TRUE
    /\ handler' = [handler EXCEPT ![h] = Goto(@, "returned")]
    /\ UNCHANGED <<dial_info, entryVars, joined, removed, speechQ, agentSpeech>>

\* hangup(): delete_room raises; no caller of hangup() catches it.
HangupError(h) ==
    /\ handler[h].pc = "hangup"
    /\ handler' = [handler EXCEPT ![h] = Goto(@, "raised")]
    /\ UNCHANGED <<dial_info, entryVars, joined, removed, roomDeleted,
                   speechQ, agentSpeech>>

\* Where end_call goes after reading ctx.session.current_speech.
AfterCurrentSpeech_NoDrain(cur) == "hangup"
AfterCurrentSpeech(cur) == IF cur # 0 THEN "playout" ELSE "hangup"

\* end_call up to its first await: the log line reads participant.identity,
\* the current utterance is captured and, if there is one, awaited.
end_call(h) ==
    /\ CanInvoke(h)
    /\ LET r == Started("end_call")
       IN  IF ParticipantIdentityRaises
           THEN handler' = [handler EXCEPT ![h] = Goto(r, "raised")]
           ELSE handler' = [handler EXCEPT ![h] =
                    Goto([r EXCEPT !.speech = current_speech],
                         AfterCurrentSpeech(current_speech))]
    /\ UNCHANGED <<dial_info, entryVars, joined, removed, roomDeleted,
                   speechQ, agentSpeech>>

\* current_speech.wait_for_playout() returns: hangup().
PlayoutDone(h) ==
    /\ handler[h].pc = "playout"
    /\ PlayedOut(handler[h].speech)
    /\ handler' = [handler EXCEPT ![h] = Goto(@, "hangup")]
    /\ UNCHANGED <<dial_info, entryVars, joined, removed, roomDeleted,
                   speechQ, agentSpeech>>

\* look_up_availability up to `await asyncio.sleep(3)`.
look_up_availability(h) ==
    /\ CanInvoke(h)
    /\ LET r == Started("look_up_availability")
       IN  handler' = [handler EXCEPT ![h] =
               Goto(r, IF ParticipantIdentityRaises THEN "raised" ELSE "sleep")]
    /\ UNCHANGED <<dial_info, entryVars, joined, removed, roomDeleted,
                   speechQ, agentSpeech>>

\* Where look_up_availability goes after the sleep.
AfterLookup_Hangup == "hangup"
AfterLookup == "returned"

\* The sleep is over: the available times are returned.
SleepDone(h) ==
    /\ handler[h].pc = "sleep"
    /\ handler' = [handler EXCEPT ![h] =
           [Goto(@, AfterLookup) EXCEPT !.result = "available_times"]]
    /\ UNCHANGED <<dial_info, entryVars, joined, removed, roomDeleted,
                   speechQ, agentSpeech>>

\* confirm_appointment has no await.
confirm_appointment(h) ==
    /\ CanInvoke(h)
    /\ LET r == Started("confirm_appointment")
       IN  handler' = [handler EXCEPT ![h] =
               IF ParticipantIdentityRaises
               THEN Goto(r, "raised")
               ELSE [Goto(r, "returned") EXCEPT
                        !.result = "reservation confirmed"]]
    /\ UNCHANGED <<dial_info, entryVars, joined, removed, roomDeleted,
                   speechQ, agentSpeech>>

\* detected_answering_machine: the log line, then hangup().
detected_answering_machine(h) ==
    /\ CanInvoke(h)
    /\ LET r == Started("detected_answering_machine")
       IN  handler' = [handler EXCEPT ![h] =
               Goto(r, IF ParticipantIdentityRaises THEN "raised" ELSE "hangup")]
    /\ UNCHANGED <<dial_info, entryVars, joined, removed, roomDeleted,
                   speechQ, agentSpeech>>

ToolNext ==
    \/ \E h \in Handlers, ok \in BOOLEAN : transfer_call(h, ok)
    \/ \E h \in Handlers : NoticeDone(h)
    \/ \E h \in Handlers : TransferDialAnswered(h)
    \/ \E h \in Handlers, ok \in BOOLEAN : TransferDialError(h, ok)
    \/ \E h \in Handlers : TransferJoined(h)
    \/ \E h \in Handlers, ok \in BOOLEAN : TransferJoinError(h, ok)
    \/ \E h \in Handlers : TransferRemoved(h)
    \/ \E h \in Handlers, ok \in BOOLEAN : TransferRemoveError(h, ok)
    \/ \E h \in Handlers : ApologyDone(h)
    \/ \E h \in Handlers : HangupDone(h)
    \/ \E h \in Handlers : HangupError(h)
    \/ \E h \in Handlers : end_call(h)
    \/ \E h \in Handlers : PlayoutDone(h)
    \/ \E h \in Handlers : look_up_availability(h)
    \/ \E h \in Handlers : SleepDone(h)
    \/ \E h \in Handlers : confirm_appointment(h)
    \/ \E h \in Handlers : detected_answering_machine(h)

EntryNext ==
    \/ Connect
    \/ StartSession
    \/ Dial
    \/ DialAnswered
    \/ \E k \in ErrKinds : DialError(k)
    \/ AwaitSessionStarted
    \/ \E k \in ErrKinds : AwaitSessionFailed(k)
    \/ BindParticipant
    \/ \E k \in ErrKinds : WaitParticipantError(k)

EnvNext ==
    \/ SessionStartOk
    \/ SessionStartFail
    \/ CalleeVisible
    \/ TargetVisible
    \/ AgentSpeaks
    \/ SpeechFinish

Next == EntryNext \/ EnvNext \/ ToolNext

Spec == Init /\ [][Next]_vars

\* The steps the event loop and the dialing API are bound to take: entrypoint
\* runs on when what it awaits is ready, the dial returns (answered, or failed
\* at the API's own answer timeout) and the session-start task finishes.
\* Nothing makes the callee show up in the room, and nothing makes
\* wait_for_participant raise.
Fairness ==
    /\ WF_vars(Connect)
    /\ WF_vars(StartSession)
    /\ WF_vars(Dial)
    /\ WF_vars(DialAnswered \/ \E k \in ErrKinds : DialError(k))
    /\ WF_vars(SessionStartOk \/ SessionStartFail)
    /\ WF_vars(AwaitSessionStarted)
    /\ WF_vars(\E k \in ErrKinds : AwaitSessionFailed(k))
    /\ WF_vars(BindParticipant)

FairSpec == Spec /\ Fairness

\* ----------------------------------------------------------------- claims

Invoked(r) == r.action # "none"
Finished(r) == r.pc \in {"returned", "raised"}

\* The invocation spoke nothing and issued no request to the dialing API or
\* the room service.
NoSideEffect(r) ==
    /\ r.notice = 0
    /\ r.apology = 0
    /\ r.dials = 0
    /\ r.removes = 0
    /\ r.deletes = 0

RECURSIVE SumDeletes(_)
SumDeletes(S) ==
    IF S = {} THEN 0
    ELSE LET h == CHOOSE x \in S : TRUE
         IN  handler[h].deletes + SumDeletes(S \ {h})

\* Number of delete_room requests issued in the job.
DeleteRequests == SumDeletes(Handlers)

\* C1: whenever the dial request for the callee has been issued, the session
\* start has already been initiated (the task session_started exists).
C1_SessionStartBeforeDial ==
    (calleeDials # <<>> \/ call # "idle") => sessionTask # "none"

\* C1 witness: the callee is being dialed while the session start is pending.
C1_Witness == call = "dialing" /\ sessionTask = "pending"

\* C2 (as claimed): transfer_call, invoked on the bound agent without a
\* configured target (transfer_to missing or empty), returns
\* "cannot transfer call" and has no side effect.
C2_NoTargetReturnsFailure ==
    \A h \in Handlers :
        LET r == handler[h]
        IN  (r.action = "transfer_call" /\ r.bound
                /\ dial_info.transfer_to \in {Absent, ""})
            => /\ r.pc = "returned"
               /\ r.result = "cannot transfer call"
               /\ NoSideEffect(r)

\* C3 (as claimed): a transfer_call, invoked on the bound agent, that failed
\* at the dial, the join-wait or the removal speaks exactly one apology and
\* then issues exactly one room delete, the apology having played out before
\* the delete is issued.
C3_OneApologyThenOneHangup ==
    \A h \in Handlers :
        LET r == handler[h]
        IN  /\ (r.action = "transfer_call" /\ r.bound /\ r.deletes > 0)
                => /\ r.failStage # "none"
                   /\ r.apology # 0
                   /\ PlayedOut(r.apology)
            /\ (r.action = "transfer_call" /\ r.bound
                    /\ r.failStage # "none" /\ Finished(r))
                => /\ r.apology # 0
                   /\ r.deletes = 1

\* C4: once end_call has issued the room delete, the utterance that was
\* current when end_call was invoked has finished playing.
C4_EndCallDrainsSpeech ==
    \A h \in Handlers :
        LET r == handler[h]
        IN  (r.action = "end_call" /\ r.deletes > 0) => PlayedOut(r.speech)

\* C4 witness: end_call found an utterance in flight and has issued the delete.
C4_Witness ==
    \E h \in Handlers :
        /\ handler[h].action = "end_call"
        /\ handler[h].speech # 0
        /\ handler[h].deletes = 1

\* C5: in transfer_call the notice has played out before the target is
\* dialed, the dial has returned answered before the join-wait starts, and
\* the agent is removed only once the transfer target is in the room.
C5_TransferOrder ==
    /\ \A h \in Handlers :
        LET r == handler[h]
        IN  /\ r.dials > 0 => (r.notice # 0 /\ PlayedOut(r.notice))
            /\ (r.pc = "join" \/ r.removes > 0) => r.leg = "answered"
            /\ r.removes > 0 => dial_info.transfer_to \in joined
    /\ LocalIdentity \in removed => dial_info.transfer_to \in joined

\* C5 witness: a transfer_call ran to its end and the agent has left the room.
C5_Witness ==
    /\ LocalIdentity \in removed
    /\ \E h \in Handlers :
        /\ handler[h].action = "transfer_call"
        /\ handler[h].pc = "returned"
        /\ handler[h].removes = 1

\* C6 (as claimed): the room delete request is issued at most once per job.
C6_DeleteAtMostOnce == DeleteRequests <= 1

\* A terminal event of the call that has run to its end: end_call, a detected
\* voicemail, or a transfer_call with a target (succeeded or failed).
TerminalEventOver(r) ==
    /\ r.pc = "returned"
    /\ \/ r.action \in {"end_call", "detected_answering_machine"}
       \/ r.action = "transfer_call" /\ r.notice # 0

\* C7 (as claimed): after end_call, a detected voicemail, a transfer success
\* or a transfer failure on the bound agent, the room has been deleted.
C7_RoomDeletedAfterTerminalEvent ==
    \A h \in Handlers :
        (TerminalEventOver(handler[h]) /\ handler[h].bound) => roomDeleted

\* C7 (amended): when end_call, detected_answering_machine or a failed
\* transfer_call returns, the room has been deleted and that invocation issued
\* one delete; when a successful transfer_call returns, the agent has left the
\* room and that invocation issued no delete.
C7_RoomDeletedUnlessTransferred ==
    \A h \in Handlers :
        LET r == handler[h]
        IN  TerminalEventOver(r) =>
                IF r.action = "transfer_call" /\ r.failStage = "none"
                THEN r.deletes = 0 /\ LocalIdentity \in removed
                ELSE r.deletes = 1 /\ roomDeleted

\* C7 witness: a failed transfer_call has returned.
C7_Witness ==
    \E h \in Handlers :
        /\ handler[h].action = "transfer_call"
        /\ handler[h].failStage # "none"
        /\ handler[h].pc = "returned"

C9_BindAfterStartAndJoin ==
    /\ epc = "wait_participant" => (call = "answered" /\ sessionTask = "started")
    /\ participant # NoParticipant =>
          /\ call = "answered"
          /\ sessionTask = "started"
          /\ participant \in joined
          /\ participant = dial_info.phone_number

\* C9 witness: entrypoint has bound the callee.
C9_Witness == participant # NoParticipant /\ epc = "done"

\* C10 (as claimed): a tool invoked while agent.participant is unset ends at
\* once, without speaking, dialing, removing a participant or deleting.
C10_UnboundFailsFast ==
    \A h \in Handlers :
        LET r == handler[h]
        IN  (Invoked(r) /\ ~r.bound) => (Finished(r) /\ NoSideEffect(r))

\* C11 (as claimed): when the binding sequence after the answer (await
\* session_started, wait_for_participant, set_participant) raised, the job
\* has been shut down.
C11_BindingFailureShutsDown ==
    (call = "answered" /\ epc = "crashed") => shutdown

\* C12 (as claimed): entrypoint eventually finishes its setup phase: it binds
\* the participant, shuts the job down or ends.
C12_SetupTerminates == <>(epc \in {"done", "crashed"})

\* C13 (as claimed): a hangup whose delete_room is answered after the room
\* was already deleted by an earlier hangup raises nothing to its caller and
\* leaves the room as it was.
C13_SecondHangupIsQuiet ==
    [][\A h \in Handlers :
          (roomDeleted /\ handler[h].pc = "hangup" /\ handler'[h].pc # "hangup")
              => (handler'[h].pc = "returned" /\ roomDeleted')]_vars

\* C14 (as claimed, for the tools): no tool returns to the conversational
\* agent by raising an error of the room service: a tool that has requested
\* the room delete does not end raised.
C14_NoTransportErrorEscapes ==
    \A h \in Handlers :
        ~(handler[h].pc = "raised" /\ handler[h].deletes > 0)

\* The call is over for the agent: the room is deleted or the agent has left.
CallOver == roomDeleted \/ LocalIdentity \in removed

\* C15 (as claimed): once the room is deleted or the agent ceded the call, no
\* tool speaks a further reply or issues a further transfer dial, participant
\* removal or room delete.
C15_NoActionAfterCallOver ==
    [][CallOver =>
          \A h \in Handlers :
              /\ handler'[h].notice = handler[h].notice
              /\ handler'[h].apology = handler[h].apology
              /\ handler'[h].dials = handler[h].dials
              /\ handler'[h].removes = handler[h].removes
              /\ handler'[h].deletes = handler[h].deletes]_vars

AppointmentTools == {"look_up_availability", "confirm_appointment"}

\* C16: look_up_availability and confirm_appointment speak nothing and issue
\* no dial, removal or delete; their steps leave dial_info, agent.participant
\* and the room as they are; on the bound agent they return the available
\* times and "reservation confirmed"; and when detected_answering_machine has
\* returned the room is deleted, whatever the appointment tools did.
C16_AppointmentToolsAreQueries ==
    /\ [](\A h \in Handlers :
            LET r == handler[h]
            IN  /\ r.action \in AppointmentTools => NoSideEffect(r)
                /\ (r.action = "look_up_availability" /\ r.bound)
                      => /\ r.pc \in {"sleep", "returned"}
                         /\ r.pc = "returned" => r.result = "available_times"
                /\ (r.action = "confirm_appointment" /\ r.bound)
                      => (r.pc = "returned"
                            /\ r.result = "reservation confirmed")
                /\ (r.action = "detected_answering_machine"
                        /\ r.pc = "returned") => roomDeleted)
    /\ [][\A h \in Handlers :
            (handler'[h] # handler[h]
                /\ handler'[h].action \in AppointmentTools)
            => UNCHANGED <<dial_info, entryVars, joined, removed,
                           roomDeleted, speechQ>>]_vars

\* C16 witness: both appointment tools have returned their results.
C16_Witness ==
    \E g, h \in Handlers :
        /\ handler[g].action = "look_up_availability"
        /\ handler[g].result = "available_times"
        /\ handler[h].action = "confirm_appointment"
        /\ handler[h].result = "reservation confirmed"

\* C17: agent.participant, once set, is never changed or cleared; the identity
\* awaited in the room and the one bound are the identity the callee was
\* dialed with.
C17_ParticipantSetOnce ==
    /\ [](/\ awaited # NoParticipant => awaited = calleeDials[1]
          /\ participant # NoParticipant => participant = calleeDials[1])
    /\ [][participant # NoParticipant => participant' = participant]_vars

\* C17 witness: the callee is bound and a transfer has since removed the agent.
C17_Witness == participant # NoParticipant /\ LocalIdentity \in removed

\* C18: a transfer_call with a target whose notice could not be spoken ends
\* raised, having dialed, removed, apologised and deleted nothing.
C18_NoticeFailureStopsTransfer ==
    \A h \in Handlers :
        LET r == handler[h]
        IN  (r.action = "transfer_call" /\ r.notice = 0
                /\ dial_info.transfer_to \notin {Absent, ""})
            => (r.pc = "raised" /\ NoSideEffect(r))

\* C18 witness: the notice of a transfer_call on the bound agent failed and
\* the agent and the room are still there.
C18_Witness ==
    /\ dial_info.transfer_to \notin {Absent, ""}
    /\ ~roomDeleted
    /\ LocalIdentity \notin removed
    /\ \E h \in Handlers :
        /\ handler[h].action = "transfer_call"
        /\ handler[h].bound
        /\ handler[h].notice = 0
        /\ handler[h].pc = "raised"

\* C19: when shutdown was requested after a failed dial, the session start
\* was never awaited; the step that requests shutdown leaves the session-start
\* task as it is, and a task still pending then can still finish. After an
\* answered dial the session start has been awaited before anything else, so
\* a shutdown requested there finds the task finished.
C19_ShutdownLeavesSessionTask ==
    /\ []((shutdown /\ call = "failed") =>
            /\ awaited = NoParticipant
            /\ sessionTask \in {"pending", "started", "failed"}
            /\ sessionTask = "pending" => ENABLED SessionStartOk)
    /\ []((shutdown /\ call # "failed") =>
            /\ call = "answered"
            /\ sessionTask \in {"started", "failed"})
    /\ [][(~shutdown /\ shutdown') => sessionTask' = sessionTask]_vars

\* C19 witness: the job shutdown was requested while the session start is
\* still pending.
C19_Witness == shutdown /\ sessionTask = "pending"

\* C20: a room delete is requested only by end_call, by
\* detected_answering_machine and by a transfer_call that failed; the room is
\* deleted only by such a request; only the agent's own participant is ever
\* removed; a transfer_call that succeeded requested no delete.
C20_DeleteOnlyThroughHangup ==
    /\ \A h \in Handlers :
        LET r == handler[h]
        IN  /\ r.deletes > 0 =>
                \/ r.action \in {"end_call", "detected_answering_machine"}
                \/ r.action = "transfer_call" /\ r.failStage # "none"
            /\ (r.action = "transfer_call" /\ r.pc = "returned"
                    /\ r.notice # 0 /\ r.failStage = "none")
                => (r.deletes = 0 /\ removed = {LocalIdentity})
    /\ roomDeleted => DeleteRequests >= 1
    /\ removed \subseteq {LocalIdentity}

\* C20 witness: a transfer succeeded; the callee and the transfer target are
\* in the room, which was not deleted.
C20_Witness ==
    /\ ~roomDeleted
    /\ {dial_info.phone_number, dial_info.transfer_to} \subseteq joined
    /\ \E h \in Handlers :
        /\ handler[h].action = "transfer_call"
        /\ handler[h].pc = "returned"
        /\ handler[h].removes = 1
====
